---------------------------- MODULE Spec2Model ----------------------------
(***************************************************************************)
(* The in-memory email store (storage/store.go) and the IMAP mailbox view  *)
(* built on it (package imap: backend.go and the Mailbox type), driven by  *)
(* the SMTP ingestion path (Save), the HTTP query API (Delete, DeleteAll,  *)
(* GetByID, Count) and IMAP sessions (Select, Status, List, Search,        *)
(* SetFlags, Expunge).                                                     *)
(*                                                                         *)
(* Every Store method runs under the Store's RWMutex, so one Store call is *)
(* one atomic step.  A Mailbox method that makes one Store call and then   *)
(* works on session-private data is one step; Expunge (one Store.Delete    *)
(* per flagged identifier, then clear) is split at its Store calls, so     *)
(* that other actors interleave with it.                                   *)
(*                                                                         *)
(* Further specifications over the same variables: SpecUid (identifiers a  *)
(* client is shown), SpecUser (the backend's mailbox list), SpecSmtp (the  *)
(* SMTP session's Rcpt, Data, Reset and the body built by List), SpecTwo   *)
(* (two IMAP sessions), SpecFlag (SetFlags split at its Store call), and   *)
(* the lock-level SpecLock, SpecLockFair, SpecSnap and SpecSave, in which  *)
(* goroutines run the Store methods statement by statement against the     *)
(* RWMutex.                                                                *)
(***************************************************************************)
EXTENDS Integers, Sequences, FiniteSets

\* ------------------------------------------------------------------ bounds
MaxSaves == 2          \* number of Save calls explored in one behaviour
MaxSeq == 2            \* largest sequence number a request names
MaxRcpt == 1           \* number of RCPT commands before a DATA

\* the IMAP sessions; every other actor reaches the Store through the SMTP
\* and HTTP actions
Sessions == {1}

\* the sessions of the specification in which two clients have INBOX open
TwoSessions == {1, 2}
IDs == 1..MaxSaves

\* ------------------------------------------------- program constants / types
DeletedFlag == "\\Deleted"
SeenFlag == "\\Seen"
AddFlags == "AddFlags"
RemoveFlags == "RemoveFlags"
SetFlags == "SetFlags"

\* imap.SeqSet values a client sends: one number, or the full range 1:*
FullRange == 1..MaxSaves
SeqSets == {{n} : n \in 1..MaxSeq} \cup {FullRange}
FlagsOps == {AddFlags, RemoveFlags, SetFlags}
FlagLists == {<<DeletedFlag>>, <<SeenFlag>>}

\* goroutines calling the Store concurrently, and the methods they call
Procs == {1, 2, 3}

StoreOps == {"Save", "GetAll", "GetByID", "Delete", "DeleteAll", "Count"}

\* mailbox names a client may send, and message literals it may append
MailboxNames == {"INBOX", "Drafts"}

Bodies == {"", "Subject: x"}

\* inbound messages: what the SMTP client sends after DATA.  A body is its
\* Content-Transfer-Encoding and its bytes; a part of a multipart body also
\* has a media type and the way reading it goes: "none" (no failure), "next"
\* (mr.NextPart returns an error other than io.EOF), "read" (io.ReadAll of the
\* part returns an error and the bytes read before it, here none)
Recipients == {"a@example.com"}

PartContents ==
  {[encoding |-> "base64", raw |-> "aGk="],
   [encoding |-> "base64", raw |-> "%%"]}

BodyContents ==
  PartContents \cup {[encoding |-> "", raw |-> "hi"],
                     [encoding |-> "quoted-printable", raw |-> "a=3Db"]}

PartMedia == {"text/plain", "text/html"}

PartFaults == {"none", "next", "read"}

MimeParts ==
  {[media |-> md, encoding |-> c.encoding, raw |-> c.raw, fault |-> f] :
     md \in PartMedia, c \in PartContents, f \in PartFaults}

\* readOk: mail.ReadMessage succeeds; media "": no parsable Content-Type
Messages ==
  {[readOk |-> FALSE, media |-> "", encoding |-> "", raw |-> "", parts |-> <<>>]}
  \cup {[readOk |-> TRUE, media |-> md, encoding |-> c.encoding, raw |-> c.raw,
         parts |-> <<>>] : md \in {"", "text/plain", "text/html", "image/png"},
                           c \in BodyContents}
  \cup {[readOk |-> TRUE, media |-> "multipart/mixed", encoding |-> "",
         raw |-> "", parts |-> ps] :
           ps \in {<<a>> : a \in MimeParts}
                  \cup {<<a, b>> : a \in MimeParts, b \in MimeParts}}

\* imap.BodySectionName specifiers: BODY[HEADER] and BODY[]
Sections == {"HEADER", ""}

VARIABLES
  emails,        \* Store.emails : map[int]*models.Email
  nextID,        \* Store.nextID
  pc,            \* per session: "none" | "idle" | "expunging"
  deletedFlags,  \* per session: Mailbox.deletedFlags (the keys mapped to true)
  todo,          \* per session: keys the range loop of Expunge has not visited
  ret,           \* the last completed call and what it returned
  everIssued,    \* history: ids returned by Save since construction, in order
  clearedAt,     \* history: Len(everIssued) at the latest DeleteAll, -1 if none
  live,          \* history: <<ptr, id>> saved, no Delete(id)/DeleteAll since
  gone,          \* history: issued ids deleted and not issued again since
  canon,         \* history: per session, ids the flag requests denote in ascending-id order
  flagAt,        \* history: per session, Len(everIssued) when it last set a flag
  seen,          \* history: per session, <<uid, ptr>> reported by List and Search
  mu,            \* Store.mu: a writer holds it (w), number of readers holding it
                 \* (r), the goroutine whose Lock call is announced (pend, 0 if none)
  call,          \* per goroutine in a Store method: the method, its argument, its position
  to,            \* smtp Session.to: the recipients of the transaction in progress
  snap,          \* per session: the slice and arguments of an UpdateMessagesFlags
                 \* that has called GetAll and not yet flagged
  got,           \* history: the slice the latest GetAll returned, and the map then
  saved          \* history: <<goroutine, id>> of every Save that returned, in order

vars == <<emails, nextID, pc, deletedFlags, todo, ret,
          everIssued, clearedAt, live, gone, canon, flagAt, seen, mu, call, to, snap,
          got, saved>>

lockVars == <<mu, call>>

smtpVars == <<to>>

flagVars == <<snap>>

resVars == <<got, saved>>

storeVars == <<emails, nextID>>
sessVars == <<pc, deletedFlags, todo>>
histVars == <<everIssued, clearedAt, live, gone>>
flagHist == <<canon, flagAt>>

\* ------------------------------------------------------------------ helpers
Range(s) == {s[i] : i \in 1..Len(s)}

\* models.Email as handed to Save: ID is the zero value, ptr is the object
NewEmail(p) == [ID |-> 0, ptr |-> p]

\* seqset.Contains(seqNum)
Contains(seqset, seqNum) == seqNum \in seqset

\* ------------------------------------------------------------ Store (pure)
\* NewStore
NoEmails == [k \in {} |-> NewEmail(0)]

NewStore == [emails |-> NoEmails, nextID |-> 1]

\* Save: the map and counter after the call, and the returned id
SaveEmails_IDNotSet(m, n, email) ==
  [k \in (DOMAIN m) \cup {n} |-> IF k = n THEN email ELSE m[k]]

SaveEmails(m, n, email) ==
  [k \in (DOMAIN m) \cup {n} |-> IF k = n THEN [email EXCEPT !.ID = n] ELSE m[k]]

SaveNextID_NoIncrement(n) == n

SaveNextID(n) == n + 1

SaveResult_AfterIncrement(n) == n + 1

SaveResult(n) == n

\* GetAll: the slices a range over the map can produce (iteration order of a
\* Go map is unspecified): every arrangement of the stored records
GetAll(m) ==
  {[i \in 1..Cardinality(DOMAIN m) |-> m[f[i]]] :
     f \in {g \in [1..Cardinality(DOMAIN m) -> DOMAIN m] :
              \A i, j \in 1..Cardinality(DOMAIN m) : i # j => g[i] # g[j]}}

\* GetByID
GetByID_AlwaysExists(m, id) ==
  [exists |-> TRUE, email |-> IF id \in DOMAIN m THEN m[id] ELSE NewEmail(0)]

GetByID(m, id) ==
  IF id \in DOMAIN m THEN [exists |-> TRUE, email |-> m[id]]
                     ELSE [exists |-> FALSE, email |-> NewEmail(0)]

\* Delete: the map after the call, and the returned bool
DeleteEmails_RemovesAll(m, id) ==
  IF id \in DOMAIN m THEN NoEmails ELSE m

DeleteEmails(m, id) ==
  IF id \in DOMAIN m THEN [k \in (DOMAIN m) \ {id} |-> m[k]] ELSE m

DeleteResult(m, id) == id \in DOMAIN m

\* DeleteAll
DeleteAllEmails == NoEmails

DeleteAllNextID_NotReset(n) == n

DeleteAllNextID(n) == 1

\* sync.RWMutex, unlocked
MuFree == [w |-> FALSE, r |-> 0, pend |-> 0]

\* a goroutine that is in no Store method
NoCall == [op |-> "none", id |-> 0, at |-> "out", out |-> <<>>]

\* a Delete that only takes the read lock
LockMode_DeleteReads(op) ==
  IF op \in {"Save", "DeleteAll"} THEN "Lock" ELSE "RLock"

\* a Save that takes no lock that excludes another Save
LockMode_SavesShare(op) ==
  IF op \in {"Delete", "DeleteAll"} THEN "Lock" ELSE "RLock"

\* a Save that only takes the read lock
LockMode_SaveReads(op) ==
  IF op \in {"Delete", "DeleteAll"} THEN "Lock" ELSE "RLock"

\* which side of mu each method takes before its first statement
LockMode(op) ==
  IF op \in {"Save", "Delete", "DeleteAll"} THEN "Lock" ELSE "RLock"

\* models.Email as Session.Data builds it (of its fields the Store of this
\* model keeps ID and To; Body and HTMLBody are in what Data returns)
DataEmail(p, recipients) == [ID |-> 0, ptr |-> p, To |-> recipients]

\* Count
Count(m) == Cardinality(DOMAIN m)

\* ascending-identifier arrangement of a set of ids (the canonical listing)
Ascending(S) ==
  [i \in 1..Cardinality(S) |->
     CHOOSE x \in S : Cardinality({y \in S : y < x}) = i - 1]

\* ------------------------------------------------------- Mailbox (pure)
\* a ListMessages that looks the flag up under the sequence number
ListMessages_FlagsBySeqNum(order, seqset, flagged) ==
  LET msg(i) == [SeqNum |-> i, Uid |-> order[i].ID, ptr |-> order[i].ptr,
                 Flags |-> IF i \in flagged THEN {DeletedFlag} ELSE {}]
      all == [i \in 1..Len(order) |-> msg(i)]
  IN SelectSeq(all, LAMBDA m : Contains(seqset, m.SeqNum))

\* ListMessages: the messages sent on ch, for the slice GetAll returned
ListMessages(order, seqset, flagged) ==
  LET msg(i) == [SeqNum |-> i, Uid |-> order[i].ID, ptr |-> order[i].ptr,
                 Flags |-> IF order[i].ID \in flagged THEN {DeletedFlag} ELSE {}]
      all == [i \in 1..Len(order) |-> msg(i)]
  IN SelectSeq(all, LAMBDA m : Contains(seqset, m.SeqNum))

\* a SearchMessages that matches nothing unless the criteria are empty
SearchMessages_Filters(order, uid, criteria) ==
  IF criteria = "ALL" THEN [i \in 1..Len(order) |-> IF uid THEN order[i].ID ELSE i]
  ELSE <<>>

\* SearchMessages: criteria is not read
SearchMessages(order, uid, criteria) ==
  [i \in 1..Len(order) |-> IF uid THEN order[i].ID ELSE i]

\* Status: the counts computed from the slice GetAll returned
Status(order) ==
  [Messages |-> Len(order), UidNext |-> Len(order) + 1, UidValidity |-> 1,
   Recent |-> 0, Unseen |-> 0]

\* a hasDeletedFlag that any flag satisfies
HasDeletedFlag_AnyFlag(flags) == Len(flags) > 0

\* UpdateMessagesFlags: hasDeletedFlag
HasDeletedFlag(flags) == \E i \in 1..Len(flags) : flags[i] = DeletedFlag

\* UpdateMessagesFlags: the <<seqNum, id>> the loop acts on
FlagTargets(order, seqset) ==
  {<<i, order[i].ID>> : i \in {j \in 1..Len(order) : Contains(seqset, j)}}

\* UpdateMessagesFlags: deletedFlags after the call
UpdateMessagesFlags(flagged, order, seqset, operation, flags) ==
  LET ids == {t[2] : t \in FlagTargets(order, seqset)} IN
  IF ~HasDeletedFlag(flags) THEN flagged
  ELSE IF operation = AddFlags \/ operation = SetFlags THEN flagged \cup ids
  ELSE IF operation = RemoveFlags THEN flagged \ ids
  ELSE flagged

\* a CreateMailbox that accepts every name but INBOX
CreateMailbox_Creates(name) ==
  IF name = "INBOX" THEN "creating mailboxes is not supported" ELSE "nil"

\* User.CreateMailbox, DeleteMailbox, RenameMailbox and Mailbox.CreateMessage,
\* CopyMessages: the error each returns
CreateMailbox(name) == "creating mailboxes is not supported"

DeleteMailbox(name) == "deleting mailboxes is not supported"

RenameMailbox(existingName, newName) == "renaming mailboxes is not supported"

CreateMessage(flags, body) == "creating messages is not supported"

CopyMessages(uid, seqset, dest) == "copying messages is not supported"

\* --------------------------------------------------- SMTP session (pure)
\* a mail.ReadMessage that never fails
ReadMessage_Lenient(msg) == "nil"

\* mail.ReadMessage: the error it returns
ReadMessage(msg) == IF msg.readOk THEN "nil" ELSE "malformed MIME header"

\* base64.StdEncoding.DecodeString and the quoted-printable reader, on the
\* byte strings of this model
Base64Decode(s) ==
  IF s = "aGk=" THEN [err |-> FALSE, out |-> "hi"]
  ELSE IF s = "" THEN [err |-> FALSE, out |-> ""]
  ELSE [err |-> TRUE, out |-> ""]

QuotedPrintableDecode(s) ==
  IF s = "a=3Db" THEN [err |-> FALSE, out |-> "a=b"]
  ELSE IF s \in {"", "hi"} THEN [err |-> FALSE, out |-> s]
  ELSE [err |-> TRUE, out |-> ""]

\* decodeBody
decodeBody(body, encoding) ==
  IF encoding = "quoted-printable"
    THEN IF QuotedPrintableDecode(body).err THEN body
         ELSE QuotedPrintableDecode(body).out
  ELSE IF encoding = "base64"
    THEN IF Base64Decode(body).err THEN body ELSE Base64Decode(body).out
  ELSE body

\* extractBody, the multipart loop from part i on
RECURSIVE PartLoop(_, _, _, _)
PartLoop(parts, i, plainText, htmlText) ==
  IF i > Len(parts) THEN <<plainText, htmlText>>
  ELSE IF parts[i].fault = "next" THEN <<plainText, htmlText>>
  ELSE LET body == IF parts[i].fault = "read" THEN "" ELSE parts[i].raw
           bodyStr == decodeBody(body, parts[i].encoding)
       IN IF parts[i].media = "text/plain"
            THEN PartLoop(parts, i + 1, bodyStr, htmlText)
          ELSE IF parts[i].media = "text/html"
            THEN PartLoop(parts, i + 1, plainText, bodyStr)
          ELSE PartLoop(parts, i + 1, plainText, htmlText)

\* extractBody: <<plain text, HTML text>>
extractBody(msg) ==
  IF msg.media = "" THEN <<decodeBody(msg.raw, msg.encoding), "">>
  ELSE IF msg.media = "multipart/mixed" THEN PartLoop(msg.parts, 1, "", "")
  ELSE IF msg.media = "text/html" THEN <<"", decodeBody(msg.raw, msg.encoding)>>
  ELSE <<decodeBody(msg.raw, msg.encoding), "">>

\* buildBody: the To header line it writes, or the run-time panic of To[0]
buildBody(email, section) ==
  IF Len(email.To) = 0 THEN [panic |-> TRUE, To |-> ""]
  ELSE [panic |-> FALSE, To |-> email.To[1]]

\* User.ListMailboxes: the names of the mailboxes it returns
ListMailboxes == <<"INBOX">>

\* a GetMailbox that opens whatever name it is given
GetMailbox_AnyName(name) == "nil"

\* User.GetMailbox: the error it returns
GetMailbox(name) == IF name # "INBOX" THEN "mailbox not found" ELSE "nil"

\* Expunge: deletedFlags after the loop
ExpungeClear == {}

\* no UpdateMessagesFlags in progress
NoSnap == [order |-> <<>>, seqset |-> {}, operation |-> "", flags |-> <<>>]

\* GetMailbox: deletedFlags of the handle it returns
GetMailboxFlags == {}

\* the same request applied to the ascending-identifier listing of the slice
CanonOrder(order) ==
  LET ids == {order[i].ID : i \in 1..Len(order)}
      asc == Ascending(ids)
  IN [i \in 1..Len(order) |-> [ID |-> asc[i], ptr |-> 0]]

\* ---------------------------------------------------------------- Init
Init ==
  /\ emails = NewStore.emails
  /\ nextID = NewStore.nextID
  /\ pc = [s \in TwoSessions |-> "none"]
  /\ deletedFlags = [s \in TwoSessions |-> {}]
  /\ todo = [s \in TwoSessions |-> {}]
  /\ ret = [op |-> "NewStore"]
  /\ everIssued = <<>>
  /\ clearedAt = -1
  /\ live = {}
  /\ gone = {}
  /\ canon = [s \in TwoSessions |-> {}]
  /\ flagAt = [s \in TwoSessions |-> 0]
  /\ seen = [s \in TwoSessions |-> {}]
  /\ mu = MuFree
  /\ call = [p \in Procs |-> NoCall]
  /\ got = [out |-> <<>>, emails |-> NoEmails]
  /\ saved = <<>>
  /\ to = <<>>
  /\ snap = [s \in TwoSessions |-> NoSnap]

\* ids returned by Save since the latest DeleteAll (since construction if none)
issued ==
  IF clearedAt < 0 THEN everIssued
  ELSE SubSeq(everIssued, clearedAt + 1, Len(everIssued))

\* history kept by a Store.Delete(id) call, whoever makes it
DeleteHistory(id) ==
  /\ live' = {l \in live : l[2] # id}
  /\ gone' = IF id \in Range(everIssued) THEN gone \cup {id} ELSE gone
  /\ UNCHANGED <<everIssued, clearedAt>>

\* ------------------------------------------------- SMTP and HTTP callers
\* Session.Data -> Store.Save
StoreSave ==
  /\ Len(everIssued) < MaxSaves
  /\ LET email == NewEmail(Len(everIssued) + 1)
         id == SaveResult(nextID)
     IN /\ emails' = SaveEmails(emails, nextID, email)
        /\ nextID' = SaveNextID(nextID)
        /\ ret' = [op |-> "Save", id |-> id, ptr |-> email.ptr]
        /\ everIssued' = Append(everIssued, id)
        /\ live' = live \cup {<<email.ptr, id>>}
        /\ gone' = gone \ {id}
  /\ UNCHANGED <<clearedAt, sessVars, flagHist, seen, lockVars, smtpVars, flagVars, resVars>>

\* Handler.deleteEmail -> Store.Delete
StoreDelete(id) ==
  /\ emails' = DeleteEmails(emails, id)
  /\ ret' = [op |-> "Delete", id |-> id, ok |-> DeleteResult(emails, id),
             ptr |-> GetByID(emails, id).email.ptr, sess |-> 0]
  /\ DeleteHistory(id)
  /\ UNCHANGED <<nextID, sessVars, flagHist, seen, lockVars, smtpVars, flagVars, resVars>>

\* Handler.deleteAllEmails -> Store.DeleteAll
StoreDeleteAll ==
  /\ emails' = DeleteAllEmails
  /\ nextID' = DeleteAllNextID(nextID)
  /\ ret' = [op |-> "DeleteAll"]
  /\ clearedAt' = Len(everIssued)
  /\ live' = {}
  /\ gone' = gone \cup {l[2] : l \in live}
  /\ UNCHANGED <<everIssued, sessVars, flagHist, seen, lockVars, smtpVars, flagVars, resVars>>

\* Handler.getEmail -> Store.GetByID
StoreGetByID(id) ==
  /\ ret' = [op |-> "GetByID", id |-> id, exists |-> GetByID(emails, id).exists,
             email |-> GetByID(emails, id).email]
  /\ UNCHANGED <<storeVars, sessVars, histVars, flagHist, seen, lockVars, smtpVars, flagVars, resVars>>

\* Store.Count
StoreCount ==
  /\ ret' = [op |-> "Count", n |-> Count(emails)]
  /\ UNCHANGED <<storeVars, sessVars, histVars, flagHist, seen, lockVars, smtpVars, flagVars, resVars>>

\* ------------------------------------------------------- IMAP sessions
Criteria == {"ALL", "SUBJECT"}

\* SELECT: User.GetMailbox("INBOX") hands the session a new Mailbox
Select(s) ==
  /\ pc[s] \in {"none", "idle"}
  /\ pc' = [pc EXCEPT ![s] = "idle"]
  /\ deletedFlags' = [deletedFlags EXCEPT ![s] = GetMailboxFlags]
  /\ canon' = [canon EXCEPT ![s] = {}]
  /\ flagAt' = [flagAt EXCEPT ![s] = 0]
  /\ ret' = [op |-> "GetMailbox", sess |-> s]
  /\ UNCHANGED <<storeVars, todo, histVars, seen, lockVars, smtpVars, flagVars, resVars>>

\* a Status that hands the session a fresh flag set
MailboxStatus_ClearsFlags(s) ==
  /\ pc[s] = "idle"
  /\ \E order \in GetAll(emails) :
       ret' = [op |-> "Status", sess |-> s, status |-> Status(order)]
  /\ deletedFlags' = [deletedFlags EXCEPT ![s] = {}]
  /\ UNCHANGED <<storeVars, pc, todo, histVars, flagHist, seen, lockVars, smtpVars, flagVars, resVars>>

\* Mailbox.Status
MailboxStatus(s) ==
  /\ pc[s] = "idle"
  /\ \E order \in GetAll(emails) :
       ret' = [op |-> "Status", sess |-> s, status |-> Status(order)]
  /\ UNCHANGED <<storeVars, sessVars, histVars, flagHist, seen, lockVars, smtpVars, flagVars, resVars>>

\* Mailbox.ListMessages
ListMessagesCall(s) ==
  /\ pc[s] = "idle"
  /\ \E uid \in BOOLEAN, seqset \in SeqSets, order \in GetAll(emails) :
       ret' = [op |-> "List", sess |-> s, uid |-> uid, seqset |-> seqset,
               msgs |-> ListMessages(order, seqset, deletedFlags[s])]
  /\ UNCHANGED <<storeVars, sessVars, histVars, flagHist, lockVars, smtpVars, flagVars, resVars>>

MailboxListMessages(s) == ListMessagesCall(s) /\ UNCHANGED seen

\* Mailbox.ListMessages, the session remembering which record each uid named
ObservedListMessages(s) ==
  /\ ListMessagesCall(s)
  /\ seen' = [seen EXCEPT ![s] =
               seen[s] \cup {<<m.Uid, m.ptr>> : m \in Range(ret'.msgs)}]

\* Mailbox.SearchMessages
SearchMessagesCall(s) ==
  /\ pc[s] = "idle"
  /\ \E uid \in BOOLEAN, criteria \in Criteria, order \in GetAll(emails) :
       ret' = [op |-> "Search", sess |-> s, uid |-> uid, criteria |-> criteria,
               results |-> SearchMessages(order, uid, criteria),
               ptrs |-> IF uid THEN [i \in 1..Len(order) |-> order[i].ptr]
                               ELSE <<>>]
  /\ UNCHANGED <<storeVars, sessVars, histVars, flagHist, lockVars, smtpVars, flagVars, resVars>>

MailboxSearchMessages(s) == SearchMessagesCall(s) /\ UNCHANGED seen

\* Mailbox.SearchMessages by uid, the session remembering the records named
ObservedSearchMessages(s) ==
  /\ SearchMessagesCall(s)
  /\ seen' = [seen EXCEPT ![s] =
               seen[s] \cup {<<ret'.results[i], ret'.ptrs[i]>> :
                               i \in 1..Len(ret'.ptrs)}]

\* Mailbox.UpdateMessagesFlags (its uid argument is never read)
MailboxUpdateMessagesFlags(s) ==
  /\ pc[s] = "idle"
  /\ \E seqset \in SeqSets, operation \in FlagsOps, flags \in FlagLists,
        order \in GetAll(emails) :
       LET after == UpdateMessagesFlags(deletedFlags[s], order, seqset,
                                        operation, flags)
           hit == IF HasDeletedFlag(flags) THEN FlagTargets(order, seqset) ELSE {}
           set == IF operation = RemoveFlags THEN {} ELSE {t[2] : t \in hit}
       IN /\ deletedFlags' = [deletedFlags EXCEPT ![s] = after]
          /\ canon' = [canon EXCEPT ![s] =
                         UpdateMessagesFlags(canon[s], CanonOrder(order), seqset,
                                             operation, flags)]
          /\ flagAt' = [flagAt EXCEPT ![s] =
                          IF set = {} THEN flagAt[s] ELSE Len(everIssued)]
          /\ ret' = [op |-> "UpdateMessagesFlags", sess |-> s, seqset |-> seqset,
                     operation |-> operation, flags |-> flags, hit |-> hit,
                     err |-> "nil"]
  /\ UNCHANGED <<storeVars, pc, todo, histVars, seen, lockVars, smtpVars, flagVars, resVars>>

\* Mailbox.UpdateMessagesFlags as the two steps other callers can come
\* between: first the Store.GetAll call ...
FlagsGetAll(s) ==
  /\ pc[s] = "idle"
  /\ pc' = [pc EXCEPT ![s] = "flagging"]
  /\ \E seqset \in SeqSets, operation \in FlagsOps, flags \in FlagLists,
        order \in GetAll(emails) :
       snap' = [snap EXCEPT ![s] = [order |-> order, seqset |-> seqset,
                                    operation |-> operation, flags |-> flags]]
  /\ UNCHANGED <<storeVars, deletedFlags, todo, ret, histVars, flagHist, seen,
                 lockVars, smtpVars, resVars>>

\* ... then the loops over flags and over the slice
FlagsApply(s) ==
  /\ pc[s] = "flagging"
  /\ pc' = [pc EXCEPT ![s] = "idle"]
  /\ LET a == snap[s]
         hit == IF HasDeletedFlag(a.flags) THEN FlagTargets(a.order, a.seqset)
                ELSE {}
         set == IF a.operation = RemoveFlags THEN {} ELSE {t[2] : t \in hit}
     IN /\ deletedFlags' = [deletedFlags EXCEPT ![s] =
                               UpdateMessagesFlags(deletedFlags[s], a.order,
                                                   a.seqset, a.operation, a.flags)]
        /\ canon' = [canon EXCEPT ![s] =
                       UpdateMessagesFlags(canon[s], CanonOrder(a.order),
                                           a.seqset, a.operation, a.flags)]
        /\ flagAt' = [flagAt EXCEPT ![s] =
                        IF set = {} THEN flagAt[s] ELSE Len(everIssued)]
        /\ ret' = [op |-> "UpdateMessagesFlags", sess |-> s,
                   seqset |-> a.seqset, operation |-> a.operation,
                   flags |-> a.flags, hit |-> hit, err |-> "nil"]
  /\ snap' = [snap EXCEPT ![s] = NoSnap]
  /\ UNCHANGED <<storeVars, todo, histVars, seen, lockVars, smtpVars, resVars>>

\* Mailbox.Expunge, entering the range loop over deletedFlags
ExpungeBegin(s) ==
  /\ pc[s] = "idle"
  /\ pc' = [pc EXCEPT ![s] = "expunging"]
  /\ todo' = [todo EXCEPT ![s] = deletedFlags[s]]
  /\ UNCHANGED <<storeVars, deletedFlags, ret, histVars, flagHist, seen, lockVars, smtpVars, flagVars, resVars>>

\* Mailbox.Expunge, one iteration: Store.Delete(int(emailID))
ExpungeDelete(s) ==
  /\ pc[s] = "expunging"
  /\ \E id \in todo[s] :
       /\ emails' = DeleteEmails(emails, id)
       /\ ret' = [op |-> "Delete", id |-> id, ok |-> DeleteResult(emails, id),
                  ptr |-> GetByID(emails, id).email.ptr, sess |-> s]
       /\ DeleteHistory(id)
       /\ todo' = [todo EXCEPT ![s] = todo[s] \ {id}]
  /\ UNCHANGED <<nextID, pc, deletedFlags, flagHist, seen, lockVars, smtpVars, flagVars, resVars>>

\* an Expunge that returns without replacing deletedFlags
ExpungeEnd_KeepsFlags(s) ==
  /\ pc[s] = "expunging"
  /\ todo[s] = {}
  /\ pc' = [pc EXCEPT ![s] = "idle"]
  /\ ret' = [op |-> "Expunge", sess |-> s, err |-> "nil",
             missed |-> ret.op = "Delete" /\ ret.sess = s /\ ~ret.ok]
  /\ UNCHANGED <<storeVars, deletedFlags, todo, histVars, flagHist, seen, lockVars, smtpVars, flagVars, resVars>>

\* an Expunge that empties the deletedFlags of every open Mailbox
ExpungeEnd_ClearsEverySession(s) ==
  /\ pc[s] = "expunging"
  /\ todo[s] = {}
  /\ pc' = [pc EXCEPT ![s] = "idle"]
  /\ deletedFlags' = [t \in DOMAIN deletedFlags |-> {}]
  /\ ret' = [op |-> "Expunge", sess |-> s, err |-> "nil",
             missed |-> ret.op = "Delete" /\ ret.sess = s /\ ~ret.ok]
  /\ canon' = [canon EXCEPT ![s] = {}]
  /\ flagAt' = [flagAt EXCEPT ![s] = 0]
  /\ UNCHANGED <<storeVars, todo, histVars, seen, lockVars, smtpVars, flagVars, resVars>>

\* Mailbox.Expunge, after the loop: clear deletedFlags and return nil;
\* missed records that the loop's last Store.Delete found nothing to remove
ExpungeEnd(s) ==
  /\ pc[s] = "expunging"
  /\ todo[s] = {}
  /\ pc' = [pc EXCEPT ![s] = "idle"]
  /\ deletedFlags' = [deletedFlags EXCEPT ![s] = ExpungeClear]
  /\ ret' = [op |-> "Expunge", sess |-> s, err |-> "nil",
             missed |-> ret.op = "Delete" /\ ret.sess = s /\ ~ret.ok]
  /\ canon' = [canon EXCEPT ![s] = {}]
  /\ flagAt' = [flagAt EXCEPT ![s] = 0]
  /\ UNCHANGED <<storeVars, todo, histVars, seen, lockVars, smtpVars, flagVars, resVars>>

\* User.ListMailboxes; after is the call that completed before it
UserListMailboxes ==
  /\ ret' = [op |-> "ListMailboxes", names |-> ListMailboxes, err |-> "nil",
             after |-> ret.op]
  /\ UNCHANGED <<storeVars, sessVars, histVars, flagHist, seen, lockVars, smtpVars, flagVars, resVars>>

\* User.GetMailbox with any name; after is the call that completed before it
UserGetMailbox(s) ==
  /\ pc[s] \in {"none", "idle"}
  /\ \E name \in MailboxNames :
       /\ ret' = [op |-> "GetMailbox", sess |-> s, name |-> name,
                  err |-> GetMailbox(name), after |-> ret.op]
       /\ IF GetMailbox(name) = "nil"
          THEN /\ pc' = [pc EXCEPT ![s] = "idle"]
               /\ deletedFlags' = [deletedFlags EXCEPT ![s] = GetMailboxFlags]
               /\ canon' = [canon EXCEPT ![s] = {}]
               /\ flagAt' = [flagAt EXCEPT ![s] = 0]
          ELSE UNCHANGED <<pc, deletedFlags, canon, flagAt>>
  /\ UNCHANGED <<storeVars, todo, histVars, seen, lockVars, smtpVars, flagVars, resVars>>

\* User.CreateMailbox
UserCreateMailbox ==
  /\ \E name \in MailboxNames :
       ret' = [op |-> "CreateMailbox", err |-> CreateMailbox(name)]
  /\ UNCHANGED <<storeVars, sessVars, histVars, flagHist, seen, lockVars, smtpVars, flagVars, resVars>>

\* User.DeleteMailbox
UserDeleteMailbox ==
  /\ \E name \in MailboxNames :
       ret' = [op |-> "DeleteMailbox", err |-> DeleteMailbox(name)]
  /\ UNCHANGED <<storeVars, sessVars, histVars, flagHist, seen, lockVars, smtpVars, flagVars, resVars>>

\* User.RenameMailbox
UserRenameMailbox ==
  /\ \E existingName \in MailboxNames, newName \in MailboxNames :
       ret' = [op |-> "RenameMailbox",
               err |-> RenameMailbox(existingName, newName)]
  /\ UNCHANGED <<storeVars, sessVars, histVars, flagHist, seen, lockVars, smtpVars, flagVars, resVars>>

\* Mailbox.CreateMessage
MailboxCreateMessage(s) ==
  /\ pc[s] = "idle"
  /\ \E flags \in FlagLists, body \in Bodies :
       ret' = [op |-> "CreateMessage", sess |-> s,
               err |-> CreateMessage(flags, body)]
  /\ UNCHANGED <<storeVars, sessVars, histVars, flagHist, seen, lockVars, smtpVars, flagVars, resVars>>

\* Mailbox.CopyMessages
MailboxCopyMessages(s) ==
  /\ pc[s] = "idle"
  /\ \E uid \in BOOLEAN, seqset \in SeqSets, dest \in MailboxNames :
       ret' = [op |-> "CopyMessages", sess |-> s,
               err |-> CopyMessages(uid, seqset, dest)]
  /\ UNCHANGED <<storeVars, sessVars, histVars, flagHist, seen, lockVars, smtpVars, flagVars, resVars>>

\* ------------------------------------------------------- the SMTP session
\* Session.Rcpt
SessionRcpt ==
  /\ Len(to) < MaxRcpt
  /\ \E rcpt \in Recipients :
       /\ to' = Append(to, rcpt)
       /\ ret' = [op |-> "Rcpt", err |-> "nil"]
  /\ UNCHANGED <<storeVars, sessVars, histVars, flagHist, seen, lockVars, flagVars, resVars>>

\* Session.Reset
SessionReset ==
  /\ to' = <<>>
  /\ ret' = [op |-> "Reset"]
  /\ UNCHANGED <<storeVars, sessVars, histVars, flagHist, seen, lockVars, flagVars, resVars>>

\* Session.Data: parse, extract the bodies, Store.Save
SessionData ==
  /\ \E msg \in Messages :
       IF ReadMessage(msg) # "nil"
       THEN /\ ret' = [op |-> "Data", err |-> ReadMessage(msg), msg |-> msg]
            /\ UNCHANGED <<storeVars, histVars>>
       ELSE /\ Len(everIssued) < MaxSaves
            /\ LET email == DataEmail(Len(everIssued) + 1, to)
                   id == SaveResult(nextID)
               IN /\ emails' = SaveEmails(emails, nextID, email)
                  /\ nextID' = SaveNextID(nextID)
                  /\ ret' = [op |-> "Data", err |-> "nil", msg |-> msg,
                             id |-> id, Body |-> extractBody(msg)[1],
                             HTMLBody |-> extractBody(msg)[2]]
                  /\ everIssued' = Append(everIssued, id)
                  /\ live' = live \cup {<<email.ptr, id>>}
                  /\ gone' = gone \ {id}
                  /\ UNCHANGED clearedAt
  /\ UNCHANGED <<sessVars, flagHist, seen, lockVars, smtpVars, flagVars, resVars>>

\* Mailbox.ListMessages with a BODY[...] item: buildBody for every record in
\* the set, stopped by the first panic
MailboxListBody(s) ==
  /\ pc[s] = "idle"
  /\ \E seqset \in SeqSets, section \in Sections, order \in GetAll(emails) :
       ret' = [op |-> "ListBody", sess |-> s, seqset |-> seqset,
               section |-> section,
               panic |-> \E i \in 1..Len(order) :
                           /\ Contains(seqset, i)
                           /\ buildBody(order[i], section).panic]
  /\ UNCHANGED <<storeVars, sessVars, histVars, flagHist, seen, lockVars, smtpVars, flagVars, resVars>>

\* ------------------------------------------- Store methods, statement by
\* statement, called by concurrent goroutines
\* a goroutine calls one of the Store methods in ops
StoreCall(p, ops) ==
  /\ call[p].at = "out"
  /\ \E op \in ops, id \in IDs :
       /\ op = "Save" =>
            nextID + Cardinality({q \in Procs : call[q].op = "Save"
                                                /\ call[q].at # "out"}) <= MaxSaves
       /\ call' = [call EXCEPT ![p] =
                     [op |-> op,
                      id |-> IF op \in {"GetByID", "Delete"} THEN id ELSE 0,
                      at |-> "lock", out |-> <<>>]]
  /\ UNCHANGED <<storeVars, sessVars, ret, histVars, flagHist, seen, mu,
                 smtpVars, flagVars, resVars>>

StoreEnter(p) == StoreCall(p, StoreOps)

\* s.mu.Lock(), announcing: from here on no new reader gets the lock
MuLockWait(p) ==
  /\ call[p].at = "lock"
  /\ LockMode(call[p].op) = "Lock"
  /\ mu.pend = 0
  /\ mu' = [mu EXCEPT !.pend = p]
  /\ call' = [call EXCEPT ![p].at = "wait"]
  /\ UNCHANGED <<storeVars, sessVars, ret, histVars, flagHist, seen,
                 smtpVars, flagVars, resVars>>

\* s.mu.Lock(), returning once the readers inside have left
MuLock(p) ==
  /\ call[p].at = "wait"
  /\ mu.pend = p
  /\ ~mu.w /\ mu.r = 0
  /\ mu' = [mu EXCEPT !.w = TRUE]
  /\ call' = [call EXCEPT ![p].at = "body"]
  /\ UNCHANGED <<storeVars, sessVars, ret, histVars, flagHist, seen,
                 smtpVars, flagVars, resVars>>

\* s.mu.RLock()
MuRLock(p) ==
  /\ call[p].at = "lock"
  /\ LockMode(call[p].op) = "RLock"
  /\ ~mu.w /\ mu.pend = 0
  /\ mu' = [mu EXCEPT !.r = mu.r + 1]
  /\ call' = [call EXCEPT ![p].at = "body"]
  /\ UNCHANGED <<storeVars, sessVars, ret, histVars, flagHist, seen,
                 smtpVars, flagVars, resVars>>

\* the statements on s.emails of every method but GetAll; Save's email.ID
StoreBody(p) ==
  /\ call[p].at = "body"
  /\ call[p].op # "GetAll"
  /\ emails' =
       IF call[p].op = "Save" THEN SaveEmails(emails, nextID, NewEmail(nextID))
       ELSE IF call[p].op = "Delete" THEN DeleteEmails(emails, call[p].id)
       ELSE IF call[p].op = "DeleteAll" THEN DeleteAllEmails
       ELSE emails
  /\ call' = [call EXCEPT
                ![p].at = IF call[p].op \in {"Save", "DeleteAll"} THEN "counter"
                          ELSE "unlock",
                ![p].id = IF call[p].op = "Save" THEN SaveResult(nextID)
                          ELSE call[p].id]
  /\ UNCHANGED <<nextID, sessVars, ret, histVars, flagHist, seen, mu,
                 smtpVars, flagVars, resVars>>

\* GetAll's range over s.emails: one iteration appends a record whose key
\* the loop has not produced yet, in any order; the loop ends when none is left
StoreRange(p) ==
  /\ call[p].at = "body"
  /\ call[p].op = "GetAll"
  /\ LET rest == (DOMAIN emails) \ {call[p].out[i].ID : i \in 1..Len(call[p].out)}
     IN IF rest = {}
        THEN call' = [call EXCEPT ![p].at = "unlock"]
        ELSE \E k \in rest :
               call' = [call EXCEPT ![p].out = Append(call[p].out, emails[k])]
  /\ UNCHANGED <<storeVars, sessVars, ret, histVars, flagHist, seen, mu,
                 smtpVars, flagVars, resVars>>

\* Save's s.nextID++ and DeleteAll's s.nextID = 1
StoreCounter(p) ==
  /\ call[p].at = "counter"
  /\ nextID' = IF call[p].op = "Save" THEN SaveNextID(nextID)
               ELSE DeleteAllNextID(nextID)
  /\ call' = [call EXCEPT ![p].at = "unlock"]
  /\ UNCHANGED <<emails, sessVars, ret, histVars, flagHist, seen, mu,
                 smtpVars, flagVars, resVars>>

\* a return that leaves the write lock held
MuUnlockCall_KeepsLock(p) ==
  /\ call[p].at = "unlock"
  /\ LockMode(call[p].op) = "Lock"
  /\ call' = [call EXCEPT ![p] = NoCall]
  /\ UNCHANGED <<storeVars, sessVars, ret, histVars, flagHist, seen, mu,
                 smtpVars, flagVars>>

\* the deferred s.mu.Unlock()
MuUnlockCall(p) ==
  /\ call[p].at = "unlock"
  /\ LockMode(call[p].op) = "Lock"
  /\ mu' = [mu EXCEPT !.w = FALSE, !.pend = 0]
  /\ call' = [call EXCEPT ![p] = NoCall]
  /\ UNCHANGED <<storeVars, sessVars, ret, histVars, flagHist, seen,
                 smtpVars, flagVars>>

MuUnlock(p) == MuUnlockCall(p) /\ UNCHANGED resVars


\* the deferred s.mu.RUnlock()
MuRUnlockCall(p) ==
  /\ call[p].at = "unlock"
  /\ LockMode(call[p].op) = "RLock"
  /\ mu' = [mu EXCEPT !.r = mu.r - 1]
  /\ call' = [call EXCEPT ![p] = NoCall]
  /\ UNCHANGED <<storeVars, sessVars, ret, histVars, flagHist, seen,
                 smtpVars, flagVars>>

MuRUnlock(p) == MuRUnlockCall(p) /\ UNCHANGED resVars

\* the returns, with the id a Save returns written down ...
RecordSaved(p) ==
  saved' = IF call[p].op = "Save" THEN Append(saved, <<p, call[p].id>>)
           ELSE saved

MuUnlockSaved(p) == MuUnlockCall(p) /\ RecordSaved(p) /\ UNCHANGED got

MuRUnlockSaved(p) == MuRUnlockCall(p) /\ RecordSaved(p) /\ UNCHANGED got

\* ... and with the slice a GetAll returns written down, together with the
\* map as it is at the return
RecordGot(p) ==
  got' = IF call[p].op = "GetAll" THEN [out |-> call[p].out, emails |-> emails]
         ELSE got

MuUnlockGot(p) == MuUnlockCall(p) /\ RecordGot(p) /\ UNCHANGED saved

MuRUnlockGot(p) == MuRUnlockCall(p) /\ RecordGot(p) /\ UNCHANGED saved

\* a goroutine that lists the store or changes it
SnapOps == {"GetAll", "Save", "Delete", "DeleteAll"}

SnapEnter(p) == StoreCall(p, SnapOps)

\* a goroutine of the ingestion path or of a reader of single records
SaveOps == {"Save", "GetByID", "Count"}

SaveEnter(p) == StoreCall(p, SaveOps)

\* ---------------------------------------------------------------- Next
Next ==
  \/ StoreSave
  \/ \E id \in IDs : StoreDelete(id)
  \/ StoreDeleteAll
  \/ \E id \in IDs : StoreGetByID(id)
  \/ StoreCount
  \/ \E s \in Sessions : Select(s)
  \/ \E s \in Sessions : MailboxStatus(s)
  \/ \E s \in Sessions : MailboxListMessages(s)
  \/ \E s \in Sessions : MailboxSearchMessages(s)
  \/ \E s \in Sessions : MailboxUpdateMessagesFlags(s)
  \/ \E s \in Sessions : ExpungeBegin(s)
  \/ \E s \in Sessions : ExpungeDelete(s)
  \/ \E s \in Sessions : ExpungeEnd(s)
  \/ UserCreateMailbox
  \/ UserDeleteMailbox
  \/ UserRenameMailbox
  \/ \E s \in Sessions : MailboxCreateMessage(s)
  \/ \E s \in Sessions : MailboxCopyMessages(s)

Spec == Init /\ [][Next]_vars

\* the Store's writers and one session that lists and searches, remembering
\* what every unique identifier it was shown stood for
NextUid ==
  \/ StoreSave
  \/ \E id \in IDs : StoreDelete(id)
  \/ StoreDeleteAll
  \/ \E s \in Sessions : Select(s)
  \/ \E s \in Sessions : ObservedListMessages(s)
  \/ \E s \in Sessions : ObservedSearchMessages(s)

SpecUid == Init /\ [][NextUid]_vars

\* one user asking for mailboxes by name, between Store changes
NextUser ==
  \/ StoreSave
  \/ \E id \in IDs : StoreDelete(id)
  \/ StoreDeleteAll
  \/ UserListMailboxes
  \/ \E s \in Sessions : UserGetMailbox(s)
  \/ UserCreateMailbox
  \/ UserDeleteMailbox
  \/ UserRenameMailbox
  \/ \E s \in Sessions : MailboxUpdateMessagesFlags(s)

SpecUser == Init /\ [][NextUser]_vars

\* one SMTP session delivering messages, the HTTP deletions, and one IMAP
\* session fetching bodies
NextSmtp ==
  \/ SessionRcpt
  \/ SessionReset
  \/ SessionData
  \/ \E id \in IDs : StoreDelete(id)
  \/ StoreDeleteAll
  \/ \E s \in Sessions : Select(s)
  \/ \E s \in Sessions : MailboxListBody(s)

SpecSmtp == Init /\ [][NextSmtp]_vars

\* FETCH 1:* (FLAGS): the ListMessages call of a client that lists the flags
FetchAllFlags(s) ==
  /\ MailboxListMessages(s)
  /\ ret'.seqset = FullRange
  /\ ~ret'.uid

\* STORE n +FLAGS (\Deleted) and STORE n -FLAGS (\Deleted): the
\* UpdateMessagesFlags calls of a client that marks and unmarks messages
StoreDeletedFlag(s) ==
  /\ MailboxUpdateMessagesFlags(s)
  /\ ret'.flags = <<DeletedFlag>>
  /\ ret'.operation \in {AddFlags, RemoveFlags}

\* two IMAP sessions on INBOX, each with its own Mailbox, and the SMTP path
NextTwo ==
  \/ StoreSave
  \/ \E s \in TwoSessions : Select(s)
  \/ \E s \in TwoSessions : FetchAllFlags(s)
  \/ \E s \in TwoSessions : StoreDeletedFlag(s)
  \/ \E s \in TwoSessions : ExpungeBegin(s)
  \/ \E s \in TwoSessions : ExpungeDelete(s)
  \/ \E s \in TwoSessions : ExpungeEnd(s)

SpecTwo == Init /\ [][NextTwo]_vars

\* one IMAP session setting flags while the Store changes under it
NextFlag ==
  \/ StoreSave
  \/ \E id \in IDs : StoreDelete(id)
  \/ StoreDeleteAll
  \/ \E s \in Sessions : Select(s)
  \/ \E s \in Sessions : FlagsGetAll(s)
  \/ \E s \in Sessions : FlagsApply(s)

SpecFlag == Init /\ [][NextFlag]_vars

\* goroutines inside the Store's methods, one statement at a time
NextLock ==
  \/ \E p \in Procs : StoreEnter(p)
  \/ \E p \in Procs : MuLockWait(p)
  \/ \E p \in Procs : MuLock(p)
  \/ \E p \in Procs : MuRLock(p)
  \/ \E p \in Procs : StoreBody(p)
  \/ \E p \in Procs : StoreRange(p)
  \/ \E p \in Procs : StoreCounter(p)
  \/ \E p \in Procs : MuUnlock(p)
  \/ \E p \in Procs : MuRUnlock(p)

SpecLock == Init /\ [][NextLock]_vars

\* goroutines that call GetAll, Save, Delete and DeleteAll, what every GetAll
\* returns being kept
NextSnap ==
  \/ \E p \in Procs : SnapEnter(p)
  \/ \E p \in Procs : MuLockWait(p)
  \/ \E p \in Procs : MuLock(p)
  \/ \E p \in Procs : MuRLock(p)
  \/ \E p \in Procs : StoreBody(p)
  \/ \E p \in Procs : StoreRange(p)
  \/ \E p \in Procs : StoreCounter(p)
  \/ \E p \in Procs : MuUnlockGot(p)
  \/ \E p \in Procs : MuRUnlockGot(p)

SpecSnap == Init /\ [][NextSnap]_vars

\* goroutines that save and look records up, nobody deleting; what every
\* Save returns being kept
NextSave ==
  \/ \E p \in Procs : SaveEnter(p)
  \/ \E p \in Procs : MuLockWait(p)
  \/ \E p \in Procs : MuLock(p)
  \/ \E p \in Procs : MuRLock(p)
  \/ \E p \in Procs : StoreBody(p)
  \/ \E p \in Procs : StoreCounter(p)
  \/ \E p \in Procs : MuUnlockSaved(p)
  \/ \E p \in Procs : MuRUnlockSaved(p)

SpecSave == Init /\ [][NextSave]_vars

\* the same goroutines under the scheduling the Go runtime gives them: a
\* goroutine that can run its next statement does run it, and a Lock or RLock
\* call that can be granted again and again is granted (sync.Mutex and
\* sync.RWMutex are starvation-free); nobody is obliged to call the Store
LockFairness ==
  \A p \in Procs :
    /\ SF_vars(MuLockWait(p) \/ MuRLock(p))
    /\ WF_vars(MuLock(p) \/ StoreBody(p) \/ StoreRange(p) \/ StoreCounter(p)
                 \/ MuUnlock(p) \/ MuRUnlock(p))

SpecLockFair == Init /\ [][NextLock]_vars /\ LockFairness

\* ------------------------------------------------------------ properties
IsInjective(q) == \A i, j \in 1..Len(q) : i # j => q[i] # q[j]

\* a step that is a call of Store.Delete (from the HTTP API or from Expunge)
DeleteStep ==
  /\ ret'.op = "Delete"
  /\ \/ ret' # ret
     \/ emails' # emails
     \/ \E s \in Sessions : todo'[s] # todo[s] /\ todo'[s] \subseteq todo[s]

\* C1: with no DeleteAll in between, successive Save calls return consecutive
\* identifiers (each the previous one plus 1), the first Save after
\* construction returns 1, and Delete calls in between change none of this.
C1_SaveIdsConsecutive ==
  /\ \A i \in 1..(Len(issued) - 1) : issued[i + 1] = issued[i] + 1
  /\ (clearedAt < 0 /\ Len(everIssued) > 0) => everIssued[1] = 1

C1_Witness ==
  /\ clearedAt < 0
  /\ everIssued = <<1, 2>>
  /\ 1 \in gone

\* C2 as stated: the counter is greater than every identifier Save has ever
\* returned, and no identifier is issued twice.
C2_Original ==
  /\ \A i \in 1..Len(everIssued) : nextID > everIssued[i]
  /\ IsInjective(everIssued)

\* C2 amended: the counter is greater than every identifier Save has returned
\* since the latest DeleteAll (since construction if there was none), and no
\* identifier is issued twice without a DeleteAll in between.
C2_NoReuseSinceClear ==
  /\ \A i \in 1..Len(issued) : nextID > issued[i]
  /\ IsInjective(issued)

C2_Witness ==
  /\ clearedAt >= 1
  /\ Len(issued) >= 1
  /\ \E i \in 1..clearedAt : everIssued[i] \in Range(issued)

\* C3: every key of the mapping equals the ID field of its record, is
\* positive and is less than the next-identifier counter.
C3_KeysMatchIDs ==
  \A k \in DOMAIN emails :
    /\ emails[k].ID = k
    /\ k > 0
    /\ k < nextID

C3_Witness ==
  /\ DOMAIN emails = {2}
  /\ nextID = 3

\* C4: GetByID(id) finds exactly the record Save stored under id, with its ID
\* field equal to id, as long as no Delete(id) or DeleteAll ran since that
\* Save; after Delete(id) or DeleteAll it reports not found until id is
\* issued again.
C4_GetByIDAfterSave ==
  ret.op = "GetByID" =>
    /\ ret.exists <=> (\E l \in live : l[2] = ret.id)
    /\ ret.exists => (<<ret.email.ptr, ret.id>> \in live /\ ret.email.ID = ret.id)
    /\ ret.id \in gone => ~ret.exists

C4_Witness ==
  /\ ret.op = "GetByID"
  /\ ret.exists
  /\ ret.id = 2
  /\ 1 \in gone

\* C5: Delete(id) of an absent id returns false and changes neither the
\* mapping, Count nor the counter; of a present id it returns true, removes
\* exactly that key, lowers Count by 1 and leaves the counter; so a second
\* Delete(id) right after a successful one returns false and changes nothing.
C5_DeleteEffect ==
  [][DeleteStep =>
       LET id == ret'.id IN
       /\ nextID' = nextID
       /\ id \notin DOMAIN emails =>
            /\ ret'.ok = FALSE
            /\ emails' = emails
            /\ Count(emails') = Count(emails)
       /\ id \in DOMAIN emails =>
            /\ ret'.ok = TRUE
            /\ DOMAIN emails' = (DOMAIN emails) \ {id}
            /\ \A k \in DOMAIN emails' : emails'[k] = emails[k]
            /\ Count(emails') = Count(emails) - 1
       /\ (ret.op = "Delete" /\ ret.ok /\ ret.id = id) =>
            (ret'.ok = FALSE /\ emails' = emails)]_vars

C5_Witness ==
  /\ ret.op = "Delete"
  /\ ~ret.ok
  /\ ret.id \in gone
  /\ Count(emails) = 1

\* C6: right after DeleteAll, Count is 0 and GetByID finds no identifier; the
\* next Save after a DeleteAll returns 1, whatever preceded the DeleteAll.
C6_DeleteAllResets ==
  /\ ret.op = "DeleteAll" =>
       /\ Count(emails) = 0
       /\ \A id \in IDs \cup Range(everIssued) : ~GetByID(emails, id).exists
  /\ (clearedAt >= 0 /\ Len(everIssued) > clearedAt) =>
       everIssued[clearedAt + 1] = 1

C6_Witness ==
  /\ clearedAt >= 1
  /\ Len(everIssued) > clearedAt
  /\ ret.op = "Save"

\* C7: ListMessages over the full range emits the records in ascending
\* identifier order, sequence number k going to the k-th smallest identifier.
C7_ListAscending ==
  (ret.op = "List" /\ ret.seqset = FullRange) =>
    /\ Len(ret.msgs) = Count(emails)
    /\ \A i \in 1..Len(ret.msgs) :
         /\ ret.msgs[i].SeqNum = i
         /\ ret.msgs[i].Uid = Ascending(DOMAIN emails)[i]

\* C8: a record Expunge removes is one that occupied, in the ascending
\* identifier listing at flag-set time, a position the session flagged.
C8_ExpungeRemovesFlaggedPosition ==
  (ret.op = "Delete" /\ ret.sess \in Sessions /\ ret.ok) =>
    ret.id \in canon[ret.sess]

\* C9: while the Store is unchanged, the record UpdateMessagesFlags flags at
\* sequence number N is the one ListMessages of the same session reported at
\* N, and the identifier SearchMessages reports at index N is the one
\* ListMessages reported at N.
C9_PositionsAgree ==
  [][/\ (ret.op = "List" /\ ret'.op = "Search" /\ ret'.sess = ret.sess /\ ret'.uid) =>
          \A i \in 1..Len(ret.msgs) :
            ret'.results[ret.msgs[i].SeqNum] = ret.msgs[i].Uid
     /\ (ret.op = "List" /\ ret'.op = "UpdateMessagesFlags" /\ ret'.sess = ret.sess) =>
          \A i \in 1..Len(ret.msgs) : \A h \in ret'.hit :
            h[1] = ret.msgs[i].SeqNum => h[2] = ret.msgs[i].Uid]_vars

\* C10: Expunge never removes a record that was saved after the session set
\* the flag it is removed for.
C10_ExpungeSparesLaterRecords ==
  (ret.op = "Delete" /\ ret.sess \in Sessions /\ ret.ok) =>
    ret.ptr <= flagAt[ret.sess]

\* C11: within one session (UIDVALIDITY is always 1) no unique identifier
\* that List or Search reported stands for two different records.
C11_UidNeverReused ==
  \A s \in Sessions : \A a, b \in seen[s] : a[1] = b[1] => a[2] = b[2]

\* C12: Status reports the Store's Count as message count and, as UIDNEXT,
\* the identifier the next Save will get, which is greater than the
\* identifier of every record in the mailbox.
C12_StatusCounts ==
  ret.op = "Status" =>
    /\ ret.status.Messages = Count(emails)
    /\ ret.status.UidNext = nextID
    /\ \A k \in DOMAIN emails : ret.status.UidNext > k

\* C13: in every message List emits, the deleted flag is present exactly when
\* the record's identifier is in the session's deletedFlags, and no other
\* flag is reported.
C13_ListFlags ==
  ret.op = "List" =>
    \A i \in 1..Len(ret.msgs) :
      ret.msgs[i].Flags =
        IF ret.msgs[i].Uid \in deletedFlags[ret.sess] THEN {DeletedFlag} ELSE {}

C13_Witness ==
  /\ ret.op = "List"
  /\ \E i, j \in 1..Len(ret.msgs) :
       /\ ret.msgs[i].Flags = {DeletedFlag}
       /\ ret.msgs[j].Flags = {}

\* C14: List, Search and Status change nothing: across any of them the
\* Store's map, its nextID and the session's deletedFlags stay as they were.
C14_ReadsChangeNothing ==
  [][ret'.op \in {"List", "Search", "Status"} =>
       /\ emails' = emails
       /\ nextID' = nextID
       /\ deletedFlags' = deletedFlags]_vars

C14_Witness ==
  /\ ret.op = "Status"
  /\ ret.status.Messages = 2
  /\ deletedFlags[ret.sess] # {}

\* C15: Search returns every record whatever the criteria: by uid exactly the
\* identifiers in the Store, each once; by sequence number exactly 1..Count,
\* each once (so the result does not depend on the criteria).
C15_SearchReturnsAll ==
  ret.op = "Search" =>
    /\ Len(ret.results) = Count(emails)
    /\ IsInjective(ret.results)
    /\ Range(ret.results) = IF ret.uid THEN DOMAIN emails ELSE 1..Count(emails)

C15_Witness ==
  /\ ret.op = "Search"
  /\ ret.criteria = "SUBJECT"
  /\ ret.uid
  /\ Range(ret.results) = {2}

\* C17: an UpdateMessagesFlags whose flags lack the deleted flag returns nil
\* and changes neither the session's deletedFlags nor the Store, whatever the
\* operation and the range.
C17_OtherFlagsNoOp ==
  [][(ret'.op = "UpdateMessagesFlags" /\ DeletedFlag \notin Range(ret'.flags)) =>
       /\ ret'.err = "nil"
       /\ deletedFlags' = deletedFlags
       /\ emails' = emails
       /\ nextID' = nextID]_vars

C17_Witness ==
  /\ ret.op = "UpdateMessagesFlags"
  /\ ret.operation = SetFlags
  /\ ret.flags = <<SeenFlag>>
  /\ ret.seqset = {1}
  /\ Count(emails) = 2
  /\ deletedFlags[ret.sess] = DOMAIN emails

\* C18: Expunge returns nil and leaves the session's deletedFlags empty
\* whether or not the flagged ids were still in the Store; an Expunge that
\* finds deletedFlags empty calls no Store.Delete and changes neither the
\* Store nor deletedFlags.
C18_ExpungeClears ==
  [][\A s \in Sessions :
       /\ (pc[s] = "expunging" /\ pc'[s] = "idle") =>
            /\ ret' = [op |-> "Expunge", sess |-> s, err |-> "nil",
                       missed |-> ret'.missed]
            /\ deletedFlags'[s] = {}
       /\ (deletedFlags[s] = {} /\ "expunging" \in {pc[s], pc'[s]}
           /\ (pc'[s] # pc[s] \/ todo'[s] # todo[s])) =>
            /\ todo[s] = {} /\ todo'[s] = {}
            /\ emails' = emails
            /\ nextID' = nextID
            /\ deletedFlags'[s] = {}]_vars

C18_Witness ==
  /\ ret.op = "Expunge"
  /\ ret.missed
  /\ deletedFlags[ret.sess] = {}
  /\ emails # NoEmails

\* C16: an UpdateMessagesFlags whose flags hold the deleted flag puts into
\* (add, replace) or takes out of (remove) the session's deletedFlags the id
\* of every record whose position in the ascending-identifier listing is in
\* the range, leaves every other record's flag alone and leaves the Store
\* unchanged.
C16_SetFlagsByPosition ==
  [][\A s \in Sessions :
       (/\ ret'.op = "UpdateMessagesFlags"
        /\ ret'.sess = s
        /\ DeletedFlag \in Range(ret'.flags)
        /\ pc[s] = "idle" /\ pc'[s] = "idle") =>
         LET asc == Ascending(DOMAIN emails)
             ids == {asc[i] : i \in {j \in 1..Len(asc) : j \in ret'.seqset}}
         IN /\ deletedFlags'[s] =
                 IF ret'.operation = RemoveFlags THEN deletedFlags[s] \ ids
                 ELSE deletedFlags[s] \cup ids
            /\ emails' = emails
            /\ nextID' = nextID]_vars

\* C19: CreateMessage, CopyMessages, CreateMailbox, DeleteMailbox and
\* RenameMailbox return an error whatever their arguments and the state, and
\* leave the Store and every session's deletedFlags unchanged.
C19_UnsupportedRejected ==
  [][ret'.op \in {"CreateMessage", "CopyMessages", "CreateMailbox",
                  "DeleteMailbox", "RenameMailbox"} =>
       /\ ret'.err # "nil"
       /\ emails' = emails
       /\ nextID' = nextID
       /\ deletedFlags' = deletedFlags]_vars

C19_Witness ==
  /\ ret.op = "CreateMailbox"
  /\ Count(emails) = 2
  /\ \E s \in Sessions : deletedFlags[s] # {}

\* a goroutine is between a method's lock and its deferred unlock
Inside(p) == call[p].at \in {"body", "counter", "unlock"}

\* C20: while Save, Delete or DeleteAll is between its lock and its unlock no
\* other Store method is between its own; GetAll, GetByID and Count may be
\* there together.
C20_WriterExcludesAll ==
  \A p, q \in Procs :
    (p # q /\ Inside(p) /\ call[p].op \in {"Save", "Delete", "DeleteAll"})
      => ~Inside(q)

C20_Witness ==
  \E p, q, w \in Procs :
    /\ Inside(p) /\ call[p].op = "GetAll"
    /\ Inside(q) /\ call[q].op = "Count"
    /\ call[w].op = "Save" /\ call[w].at = "wait"

\* C28: a List called with uid = TRUE matches the set against the records'
\* identifiers: it emits exactly the records whose identifier is in the set,
\* whatever their position.
C28_UidModeMatchesIds ==
  (ret.op = "List" /\ ret.uid) =>
    {ret.msgs[i].Uid : i \in 1..Len(ret.msgs)} = (DOMAIN emails) \cap ret.seqset

\* C25: a user always has exactly the mailbox INBOX: ListMailboxes returns
\* one mailbox named INBOX, GetMailbox("INBOX") succeeds and GetMailbox with
\* any other name fails with "mailbox not found", in every state and after
\* any rejected create, delete or rename.
C25_OnlyInbox ==
  /\ ret.op = "ListMailboxes" => ret.names = <<"INBOX">> /\ ret.err = "nil"
  /\ (ret.op = "GetMailbox" /\ ret.name = "INBOX") => ret.err = "nil"
  /\ (ret.op = "GetMailbox" /\ ret.name # "INBOX") =>
       ret.err = "mailbox not found"

C25_Witness ==
  /\ ret.op = "GetMailbox"
  /\ ret.name = "Drafts"
  /\ ret.err = "mailbox not found"
  /\ ret.after = "CreateMailbox"
  /\ emails # NoEmails

\* C24: Session.Data calls Store.Save exactly once for a message that parses
\* and not at all for one that does not: a failed Data returns an error and
\* leaves the Store's map and nextID as they were.
C24_SaveOncePerParsedMessage ==
  [][ret'.op = "Data" =>
       IF ret'.msg.readOk
       THEN /\ ret'.err = "nil"
            /\ nextID' = nextID + 1
            /\ DOMAIN emails' = (DOMAIN emails) \cup {ret'.id}
            /\ ret'.id \notin DOMAIN emails
            /\ \A k \in DOMAIN emails : emails'[k] = emails[k]
       ELSE /\ ret'.err # "nil"
            /\ emails' = emails
            /\ nextID' = nextID]_vars

C24_Witness ==
  /\ ret.op = "Data"
  /\ ~ret.msg.readOk
  /\ ret.err # "nil"
  /\ Count(emails) = 1

\* the parts of a multipart body whose media type is md
PartsOf(msg, md) == {i \in 1..Len(msg.parts) : msg.parts[i].media = md}

\* what the last part of media type md holds when it was read without failure
Captured(msg, md, text) ==
  \A j \in PartsOf(msg, md) :
    ((\A k \in PartsOf(msg, md) : k <= j) /\ msg.parts[j].fault = "none") =>
      text = IF msg.parts[j].encoding = "base64"
                /\ ~Base64Decode(msg.parts[j].raw).err
             THEN Base64Decode(msg.parts[j].raw).out
             ELSE msg.parts[j].raw

\* C30: a failure in reading or decoding one part of a multipart message does
\* not abort capture: the message is saved, a part that fails to decode is
\* kept undecoded, and the parts before and after a failing part are
\* captured.
C30_PartFailureIsolated ==
  (ret.op = "Data" /\ ret.msg.readOk /\ ret.msg.media = "multipart/mixed") =>
    /\ ret.err = "nil"
    /\ ret.id \in 1..MaxSaves
    /\ Captured(ret.msg, "text/plain", ret.Body)
    /\ Captured(ret.msg, "text/html", ret.HTMLBody)

\* C29: a List asking for BODY[] or BODY[HEADER] completes without a panic
\* for every record the Store can hold, a record without recipients
\* included.
C29_ListBodyNeverPanics ==
  ret.op = "ListBody" => ~ret.panic

\* C22: deletedFlags is private to a session: UpdateMessagesFlags and
\* Expunge of one session leave the other session's deletedFlags alone, List
\* in a session never shows as deleted an id flagged only in the other, the
\* Store.Delete calls of a session's Expunge only name ids of its own
\* deletedFlags, and a Mailbox handed out by GetMailbox has none.
C22_FlagsPrivate ==
  [][\A a, b \in TwoSessions :
       a # b =>
         /\ (ret'.op \in {"UpdateMessagesFlags", "Expunge"} /\ ret'.sess = a) =>
              deletedFlags'[b] = deletedFlags[b]
         /\ (ret'.op = "List" /\ ret'.sess = b) =>
              \A i \in 1..Len(ret'.msgs) :
                ret'.msgs[i].Uid \in deletedFlags'[a] \ deletedFlags'[b] =>
                  DeletedFlag \notin ret'.msgs[i].Flags
         /\ (ret'.op = "Delete" /\ ret'.sess = b) =>
              ret'.id \in deletedFlags'[b]
         /\ (ret'.op = "GetMailbox" /\ ret'.sess = b) =>
              deletedFlags'[b] = {}]_vars

C22_Witness ==
  /\ ret.op = "List"
  /\ ret.sess = 2
  /\ deletedFlags[2] = {}
  /\ \E i \in 1..Len(ret.msgs) : ret.msgs[i].Uid \in deletedFlags[1]

\* C23: every id that UpdateMessagesFlags puts into a session's deletedFlags
\* is the id of a record in the Store at the moment it is put there, however
\* the call interleaves with Delete and DeleteAll.
C23_FlaggedIdsExist ==
  [][\A s \in Sessions :
       (pc[s] = "flagging" /\ pc'[s] = "idle") =>
         (deletedFlags'[s] \ deletedFlags[s]) \subseteq DOMAIN emails]_vars

\* C21: no Store method blocks for ever: every call that has started returns,
\* and when no goroutine is in a Store method the mutex is unlocked (every
\* return path released what it took).
C21_EveryCallReturns ==
  /\ \A p \in Procs : (call[p].at # "out") ~> (call[p].at = "out")
  /\ []((\A p \in Procs : call[p].at = "out") => mu = MuFree)

C21_Witness ==
  \E p, q, w \in Procs :
    /\ call[p].at = "unlock" /\ call[p].op = "Count"
    /\ call[q].at = "lock" /\ call[q].op = "GetAll"
    /\ call[w].at = "wait" /\ call[w].op = "DeleteAll"

\* the slice out holds exactly the records of the map m, each once
IsSnapshot(out, m) ==
  /\ Len(out) = Cardinality(DOMAIN m)
  /\ Range(out) = {m[k] : k \in DOMAIN m}

\* C26: GetAll returns a snapshot: when its loop is over the slice holds
\* exactly the records the Store holds at that instant, each once, and the
\* slice a GetAll returned stays what it was at the return whatever the Store
\* does afterwards.
C26_GetAllSnapshot ==
  /\ \A p \in Procs :
       (call[p].op = "GetAll" /\ call[p].at = "unlock") =>
         IsSnapshot(call[p].out, emails)
  /\ IsSnapshot(got.out, got.emails)

C26_Witness ==
  /\ Len(got.out) = 2
  /\ emails = NoEmails
  /\ \E p \in Procs : call[p].op = "DeleteAll" /\ call[p].at = "counter"

\* C27: concurrent Save calls, nobody deleting: the ids they return are
\* pairwise distinct, every returned id is a key of the Store holding a
\* record with that ID, and the Store holds one record for every Save that
\* returned or has passed its insertion.
C27_ConcurrentSaves ==
  /\ IsInjective([i \in 1..Len(saved) |-> saved[i][2]])
  /\ \A i \in 1..Len(saved) :
       /\ GetByID(emails, saved[i][2]).exists
       /\ GetByID(emails, saved[i][2]).email.ID = saved[i][2]
  /\ Count(emails) =
       Len(saved) + Cardinality({p \in Procs : /\ call[p].op = "Save"
                                               /\ call[p].at \in {"counter", "unlock"}})

C27_Witness ==
  /\ Len(saved) = 2
  /\ saved[1][1] # saved[2][1]
  /\ Count(emails) = 2
  /\ \E p \in Procs : call[p].op = "GetByID" /\ call[p].id = 2 /\ call[p].at = "unlock"

==========================================================================
